---- MODULE Spec2Model ----
(***************************************************************************)
(* Model of muda/deformers/ir.py: the impulse-response deformer.           *)
(*                                                                         *)
(*   median_group_delay      the group-delay estimator (pure function)     *)
(*   IRConvolution.__init__  the deformer's configuration                  *)
(*   IRConvolution.states    the generator of deformation states           *)
(*   IRConvolution.audio     the convolution of the working buffer         *)
(*   IRConvolution.deform_times  the shift of an annotation's observations *)
(*                                                                         *)
(* Times and durations are integers (a fixed fraction of a second), dB     *)
(* values and group delays are integers too.  What scipy computes from the *)
(* samples of an impulse response (the frequency response and the          *)
(* group-delay curve) is drawn bin by bin from bounded sets; everything    *)
(* ir.py itself computes is computed here as the code computes it.         *)
(***************************************************************************)
EXTENDS Integers, Sequences, FiniteSets, TLC

\* ---------------------------------------------------------------- bounds
MaxObs == 3           \* observations in the annotation handed to deform_times
MaxTime == 1          \* largest onset of an input observation
MaxObsDuration == 1   \* largest duration of an input observation
MaxDuration == 1      \* annotation.duration
MaxDelay == 1         \* |ir_groupdelay| of the state handed to deform_times
MaxFft == 3           \* largest n_fft (number of frequency bins)
MaxDbAbove == 1       \* loudest bin, in dB above the clip floor
MaxGd == 1            \* largest group delay of a bin, in samples
MaxRolloff == 1       \* |rolloff_value|, in dB
MaxSr == 2            \* largest sampling rate
MaxLen == 3           \* longest audio buffer and longest impulse response
MaxFiles == 2         \* longest list of impulse-response files

Values == {"a", "b"}
Confidences == {1}

\* ------------------------------------------------------------- variables
VARIABLES
    objs,               \* the Annotation objects alive: <<the caller's, slices...>>
    annotation,         \* deform_times: the object its local `annotation` names
    popped,             \* deform_times: what annotation.pop_data() returned
    idx,                \* deform_times: position of the for loop in popped
    ir_groupdelay,      \* deform_times: state["ir_groupdelay"]
    deformed_duration,  \* deform_times: the local of that name, or Unbound
    appends,            \* every annotation.append deform_times made, in order
    h_db,               \* median_group_delay: 20*log10|h_ir| per bin, before the clip
    gd_ir,              \* median_group_delay: scipy's group delay per bin (samples)
    sr,                 \* the sampling rate (mudabox._audio["sr"])
    n_fft,              \* the FFT window size: the number of bins
    rolloff_value,      \* the rolloff_value argument / self.rolloff_value
    threshold,          \* median_group_delay: the local of that name
    passband,           \* median_group_delay: the bins where power_ir > threshold
    result,             \* median_group_delay: what it returned
    audio_y,            \* audio: mudabox._audio["y"]
    y_ir,               \* audio: the samples of the impulse response loaded
    n,                  \* audio: the local n = len(mudabox._audio["y"]) on entry
    ir_files,           \* self.ir_files
    pos,                \* states: position of the generator in self.ir_files
    yielded,            \* states: the state dicts yielded so far
    loads,              \* the librosa.load calls made so far
    pc,                 \* where the operation under way stands
    raised              \* the exception that ended it, or "none"

shiftVars == <<objs, annotation, popped, idx, ir_groupdelay, deformed_duration,
               appends>>
estVars == <<h_db, gd_ir, threshold, passband, result>>
cfgVars == <<sr, n_fft, rolloff_value>>
audioVars == <<audio_y, y_ir, n>>
statesVars == <<ir_files, pos, yielded, loads>>

vars == <<shiftVars, estVars, cfgVars, audioVars, statesVars, pc, raised>>

\* the variables of the operations a specification does not run
ShiftIdle ==
    /\ objs = <<>> /\ annotation = 0 /\ popped = <<>> /\ idx = 0
    /\ ir_groupdelay = 0 /\ deformed_duration = <<>> /\ appends = <<>>
EstIdle ==
    /\ h_db = <<>> /\ gd_ir = <<>> /\ threshold = 0 /\ passband = {}
    /\ result = <<>>
CfgIdle == sr = 1 /\ n_fft = 1 /\ rolloff_value = 0
AudioIdle == audio_y = <<>> /\ y_ir = <<>> /\ n = 0
StatesIdle == ir_files = <<>> /\ pos = 0 /\ yielded = <<>> /\ loads = 0

\* a local that no assignment has bound yet; a bound one is
\* <<its value, the loop iteration that assigned it>>
Unbound == <<>>

\* ------------------------------------------------------------- helpers
Min(a, b) == IF a <= b THEN a ELSE b
Max(a, b) == IF a >= b THEN a ELSE b

SeqsUpTo(S, m) == UNION {[1..k -> S] : k \in 0..m}

Observation ==
    [time : 0..MaxTime, duration : 0..MaxObsDuration,
     value : Values, confidence : Confidences]

\* jams' Annotation.trim over [trim_start, trim_end], strict=False: an
\* observation survives when it overlaps the range, cut to the range.
Overlaps(obs, trim_start, trim_end) ==
    obs.time < trim_end /\ obs.time + obs.duration > trim_start

Clip(obs, trim_start, trim_end) ==
    [obs EXCEPT !.time = Max(obs.time, trim_start),
                !.duration = Min(obs.time + obs.duration, trim_end)
                             - Max(obs.time, trim_start)]

RECURSIVE ClipAll(_, _, _)
ClipAll(data, trim_start, trim_end) ==
    IF data = <<>> THEN <<>>
    ELSE (IF Overlaps(Head(data), trim_start, trim_end)
          THEN <<Clip(Head(data), trim_start, trim_end)>> ELSE <<>>)
         \o ClipAll(Tail(data), trim_start, trim_end)

\* annotation.slice(0, annotation.duration, strict=False): a NEW Annotation
\* (time 0, same duration) holding the clipped copy of the observations the
\* receiver holds at that moment; the receiver is left as it is.
slice(ann, start_time, end_time) ==
    [duration |-> Min(ann.duration, end_time) - Max(0, start_time),
     data |-> ClipAll(ann.data, Max(0, start_time), Min(ann.duration, end_time))]

\* annotation.append(time=..., duration=..., value=..., confidence=...)
append(ann, time, duration, value, confidence) ==
    [ann EXCEPT !.data = Append(@, [time |-> time, duration |-> duration,
                                    value |-> value, confidence |-> confidence])]

\* ------------------------------------------------------ median_group_delay
\* line 51: 20*log10(1e-8) and 20*log10(1e100), the ends of np.clip in dB
DbFloor == -160
DbCeil == 2000

\* what scipy.signal.freqz and scipy.signal.group_delay return for an
\* impulse response, bin by bin: the magnitude in dB (one step below the
\* floor stands for every |h| < 1e-8, 0 included) and the group delay
FreqzDb == (DbFloor - 1)..(DbFloor + MaxDbAbove)
GroupDelays == 0..MaxGd

\* line 51: power_ir, the clipped magnitude in dB
power_ir(hdb) ==
    [k \in 1..Len(hdb) |-> Max(DbFloor, Min(hdb[k], DbCeil))]

RECURSIVE MaxOf(_)
MaxOf(s) ==
    IF Len(s) = 1 THEN s[1] ELSE Max(Head(s), MaxOf(Tail(s)))

\* lines 43-45: the sign normalization of rolloff_value
NormalizeRolloffKeepSign(rolloff) == rolloff

NormalizeRolloff(rolloff) ==
    IF rolloff > 0 THEN -rolloff ELSE rolloff

\* line 54
Threshold(power, rolloff) == MaxOf(power) + NormalizeRolloff(rolloff)

\* line 58: the mask power_ir > threshold
PassBandBelow(power, thr) == {k \in 1..Len(power) : power[k] < thr}

PassBand(power, thr) == {k \in 1..Len(power) : power[k] > thr}

\* np.median: the middle of the sorted values, the mean of the two middle
\* ones when their number is even; NaN (no exception) on an empty array.
\* A finite value is the fraction <<numerator, denominator>>, NaN is 0/0.
NaN == <<0, 0>>

RECURSIVE Insert(_, _)
Insert(x, s) ==
    IF s = <<>> THEN <<x>>
    ELSE IF x <= Head(s) THEN <<x>> \o s
    ELSE <<Head(s)>> \o Insert(x, Tail(s))

RECURSIVE SortedOf(_, _)
\* the values gd[k], k in bins, in ascending order
SortedOf(gd, bins) ==
    IF bins = {} THEN <<>>
    ELSE LET k == CHOOSE j \in bins : TRUE
         IN Insert(gd[k], SortedOf(gd, bins \ {k}))

median(gd, bins) ==
    LET v == SortedOf(gd, bins)
        c == Len(v)
    IN IF c = 0 THEN NaN
       ELSE IF c % 2 = 1 THEN <<2 * v[(c + 1) \div 2], 2>>
       ELSE <<v[c \div 2] + v[c \div 2 + 1], 2>>

\* x / rate, NaN staying NaN
DivideBy(x, rate) == IF x = NaN THEN NaN ELSE <<x[1], x[2] * rate>>

\* lines 43-58, from what freqz and group_delay returned for y
median_group_delay(hdb, gd, rate, rolloff) ==
    LET power == power_ir(hdb)
    IN DivideBy(median(gd, PassBand(power, Threshold(power, rolloff))), rate)

InitEstimate ==
    /\ n_fft \in 1..MaxFft
    /\ h_db \in [1..n_fft -> FreqzDb]
    /\ gd_ir \in [1..n_fft -> GroupDelays]
    /\ sr \in 1..MaxSr
    /\ rolloff_value \in (-MaxRolloff)..MaxRolloff
    /\ threshold = 0
    /\ passband = {}
    /\ result = <<>>
    /\ pc = "start"
    /\ raised = "none"
    /\ ShiftIdle /\ AudioIdle /\ StatesIdle

\* lines 43-58: one call of median_group_delay; no path of it raises
MedianGroupDelay ==
    /\ pc = "start"
    /\ threshold' = Threshold(power_ir(h_db), rolloff_value)
    /\ passband' = PassBand(power_ir(h_db), threshold')
    /\ result' = median_group_delay(h_db, gd_ir, sr, rolloff_value)
    /\ pc' = "done"
    /\ UNCHANGED <<h_db, gd_ir, cfgVars, shiftVars, audioVars, statesVars, raised>>

NextEstimate == MedianGroupDelay

SpecEstimate == InitEstimate /\ [][NextEstimate]_vars

\* ------------------------------------------------------ IRConvolution.audio
Samples == {-1, 0, 1}

\* librosa.util.fix_length(data, size): zero-padded at the end, or cut
fix_length(data, size) ==
    [k \in 1..size |-> IF k <= Len(data) THEN data[k] ELSE 0]

RECURSIVE SumTo(_, _, _, _)
\* sum of a[i] * b[j + 1 - i] over the i <= upto for which both exist
SumTo(a, b, j, upto) ==
    IF upto = 0 THEN 0
    ELSE (IF j + 1 - upto >= 1 /\ j + 1 - upto <= Len(b)
          THEN a[upto] * b[j + 1 - upto] ELSE 0)
         + SumTo(a, b, j, upto - 1)

\* the full linear convolution, Len(a) + Len(b) - 1 samples
FullConvolve(a, b) ==
    [j \in 1..(Len(a) + Len(b) - 1) |-> SumTo(a, b, j, Len(a))]

\* scipy.signal.fftconvolve(in1, in2, mode="same"): the full convolution,
\* centered and cut to the length of in1 (both operands non-empty)
fftconvolveFull(in1, in2) == FullConvolve(in1, in2)

fftconvolve(in1, in2) ==
    LET full == FullConvolve(in1, in2)
        startind == (Len(full) - Len(in1)) \div 2
    IN [k \in 1..Len(in1) |-> full[startind + k]]

\* The working buffer (possibly empty) and the impulse response the state's
\* file holds: a signal of at least one sample, as states() has estimated
\* its group delay before the state exists.
InitAudio ==
    /\ audio_y \in SeqsUpTo(Samples, MaxLen)
    /\ y_ir \in SeqsUpTo(Samples, MaxLen) \ {<<>>}
    /\ n = 0
    /\ loads = 0
    /\ pc = "start"
    /\ raised = "none"
    /\ ir_files = <<>> /\ pos = 0 /\ yielded = <<>>
    /\ ShiftIdle /\ EstIdle /\ CfgIdle

\* lines 132-141: load the impulse response, pad the buffer up to it
AudioPad ==
    /\ pc = "start"
    /\ loads' = loads + 1
    /\ n' = Len(audio_y)
    /\ audio_y' = IF Len(audio_y) < Len(y_ir)
                  THEN fix_length(audio_y, Len(y_ir))
                  ELSE audio_y
    /\ pc' = "padded"
    /\ UNCHANGED <<y_ir, ir_files, pos, yielded, raised,
                   shiftVars, estVars, cfgVars>>

\* lines 143-145: the buffer becomes the "same"-mode convolution
AudioConvolve ==
    /\ pc = "padded"
    /\ audio_y' = fftconvolve(audio_y, y_ir)
    /\ pc' = "done"
    /\ UNCHANGED <<y_ir, n, statesVars, raised, shiftVars, estVars, cfgVars>>

NextAudio == AudioPad \/ AudioConvolve

SpecAudio == InitAudio /\ [][NextAudio]_vars

\* ------------------------------- IRConvolution.__init__ and .states
Files == {"ir1.wav", "ir2.wav"}

\* the ir_files argument: one path, or a list of paths
IrFilesArgs ==
    [str : {TRUE}, path : Files] \cup [str : {FALSE}, list : SeqsUpTo(Files, MaxFiles)]

\* lines 83-84: a single path becomes a list of one
AsList(arg) == IF arg.str THEN <<arg.path>> ELSE arg.list

\* lines 83-90: the deformer after construction; no argument is rejected
InitStates ==
    /\ \E arg \in IrFilesArgs : ir_files = AsList(arg)
    /\ n_fft \in 1..MaxFft
    /\ rolloff_value \in (-MaxRolloff)..MaxRolloff
    /\ sr \in 1..MaxSr
    /\ pos = 0
    /\ yielded = <<>>
    /\ loads = 0
    /\ pc = "constructed"
    /\ raised = "none"
    /\ ShiftIdle /\ EstIdle /\ AudioIdle

\* line 119: states(jam) is called, the generator starts
StatesBegin ==
    /\ pc = "constructed"
    /\ pos' = 1
    /\ pc' = "generating"
    /\ UNCHANGED <<ir_files, yielded, loads, raised,
                   shiftVars, estVars, cfgVars, audioVars>>

\* lines 121-128: the next file is loaded, its group delay estimated from
\* what scipy returns for it, and a state yielded
StatesYield ==
    /\ pc = "generating" /\ pos <= Len(ir_files)
    /\ loads' = loads + 1
    /\ \E hdb \in [1..n_fft -> FreqzDb], gd \in [1..n_fft -> GroupDelays] :
          yielded' = Append(yielded,
              [filename |-> ir_files[pos],
               ir_groupdelay |-> median_group_delay(hdb, gd, sr, rolloff_value)])
    /\ pos' = pos + 1
    /\ UNCHANGED <<ir_files, pc, raised, shiftVars, estVars, cfgVars, audioVars>>

\* line 121: the list is exhausted, the generator ends
StatesExhausted ==
    /\ pc = "generating" /\ pos > Len(ir_files)
    /\ pc' = "exhausted"
    /\ UNCHANGED <<statesVars, raised, shiftVars, estVars, cfgVars, audioVars>>

NextStates == StatesBegin \/ StatesYield \/ StatesExhausted

SpecStates == InitStates /\ [][NextStates]_vars

\* ------------------------------------------------ IRConvolution.deform_times
\* lines 106-109: the duration of an observation whose shifted onset is in range
DeformedDurationNoDelay(obs, delay, duration) ==
    IF obs.time + obs.duration + delay > duration
    THEN duration - obs.time
    ELSE obs.duration

DeformedDuration(obs, delay, duration) ==
    IF obs.time + obs.duration + delay > duration
    THEN duration - obs.time - delay
    ELSE obs.duration

\* line 101: the test of the drop branch
FellOffTheEnd(obs, delay, duration) == obs.time + delay > duration

\* The caller's annotation and state: any insertion order of observations
\* (ir.py does not look at the order pop_data() drains them in).
InitShift ==
    /\ \E data \in SeqsUpTo(Observation, MaxObs) :
          objs = <<[duration |-> MaxDuration, data |-> data]>>
    /\ ir_groupdelay \in (-MaxDelay)..MaxDelay
    /\ annotation = 1
    /\ popped = <<>>
    /\ idx = 0
    /\ deformed_duration = Unbound
    /\ appends = <<>>
    /\ pc = "start"
    /\ raised = "none"
    /\ EstIdle /\ CfgIdle /\ AudioIdle /\ StatesIdle

\* lines 96-98: read the state, drain the annotation
DeformTimesEnter ==
    /\ pc = "start"
    /\ popped' = objs[annotation].data
    /\ objs' = [objs EXCEPT ![annotation].data = <<>>]
    /\ idx' = 1
    /\ pc' = "loop"
    /\ UNCHANGED <<annotation, ir_groupdelay, deformed_duration, appends, raised>>
    /\ UNCHANGED <<estVars, cfgVars, audioVars, statesVars>>

\* one annotation.append: the iteration that made it, the object appended
\* to, the iteration that computed the duration passed, and the record
LogEntry(k, target, from, time, duration, obs) ==
    [obs |-> k, target |-> target, from |-> from,
     time |-> time, duration |-> duration,
     value |-> obs.value, confidence |-> obs.confidence]

\* lines 101-103 then 111-116: the onset fell off the end; `annotation` is
\* rebound to a slice, and the append below the if/else runs all the same,
\* with the deformed_duration of an earlier iteration (UnboundLocalError
\* when there was none).
DeformTimesDrop ==
    /\ pc = "loop" /\ idx <= Len(popped)
    /\ LET obs == popped[idx]
           cur == objs[annotation]
           new == Len(objs) + 1
           sliced == slice(cur, 0, cur.duration)
       IN /\ FellOffTheEnd(obs, ir_groupdelay, cur.duration)
          /\ annotation' = new
          /\ IF deformed_duration = Unbound
             THEN /\ objs' = Append(objs, sliced)
                  /\ pc' = "raised"
                  /\ raised' = "UnboundLocalError"
                  /\ UNCHANGED <<idx, appends>>
             ELSE /\ objs' = Append(objs,
                        append(sliced, obs.time + ir_groupdelay,
                               deformed_duration[1], obs.value, obs.confidence))
                  /\ appends' = Append(appends,
                        LogEntry(idx, new, deformed_duration[2],
                                 obs.time + ir_groupdelay,
                                 deformed_duration[1], obs))
                  /\ idx' = idx + 1
                  /\ UNCHANGED <<pc, raised>>
    /\ UNCHANGED <<popped, ir_groupdelay, deformed_duration>>
    /\ UNCHANGED <<estVars, cfgVars, audioVars, statesVars>>

\* lines 104-109 then 111-116: the onset is in range
DeformTimesKeep ==
    /\ pc = "loop" /\ idx <= Len(popped)
    /\ LET obs == popped[idx]
           cur == objs[annotation]
           dd == DeformedDuration(obs, ir_groupdelay, cur.duration)
       IN /\ ~FellOffTheEnd(obs, ir_groupdelay, cur.duration)
          /\ deformed_duration' = <<dd, idx>>
          /\ objs' = [objs EXCEPT ![annotation] =
                        append(cur, obs.time + ir_groupdelay, dd,
                               obs.value, obs.confidence)]
          /\ appends' = Append(appends,
                LogEntry(idx, annotation, idx,
                         obs.time + ir_groupdelay, dd, obs))
    /\ idx' = idx + 1
    /\ UNCHANGED <<annotation, popped, ir_groupdelay, pc, raised>>
    /\ UNCHANGED <<estVars, cfgVars, audioVars, statesVars>>

\* line 98: the loop is exhausted, deform_times returns
DeformTimesReturn ==
    /\ pc = "loop" /\ idx > Len(popped)
    /\ pc' = "done"
    /\ UNCHANGED <<objs, annotation, popped, idx, ir_groupdelay,
                   deformed_duration, appends, raised>>
    /\ UNCHANGED <<estVars, cfgVars, audioVars, statesVars>>

NextShift ==
    \/ DeformTimesEnter
    \/ DeformTimesDrop
    \/ DeformTimesKeep
    \/ DeformTimesReturn

SpecShift == InitShift /\ [][NextShift]_vars

\* ------------------------------------------- claims about deform_times
TrackDuration == objs[1].duration
Dropped(k) == FellOffTheEnd(popped[k], ir_groupdelay, TrackDuration)
Kept(k) == ~Dropped(k)
AllData == UNION {{o.data[i] : i \in 1..Len(o.data)} : o \in {objs[j] : j \in 1..Len(objs)}}

\* C1: an observation whose shifted onset is strictly greater than
\* annotation.duration is dropped: no append is made for it, and no
\* observation set holds a record past the end of the track.
C1_DroppedNeverAppended ==
    /\ \A i \in 1..Len(appends) : ~Dropped(appends[i].obs)
    /\ pc # "start" => \A r \in AllData : r.time <= TrackDuration

\* the records of the caller's track that carry a kept observation's
\* shifted onset, value and confidence
Carries(r, obs) ==
    /\ r.time = obs.time + ir_groupdelay
    /\ r.value = obs.value
    /\ r.confidence = obs.confidence

\* C2: after deform_times returns, the caller's track holds exactly one
\* record per kept observation, with the shifted onset and the same value
\* and confidence, whatever the drain order.
C2_CallerHoldsEveryKept ==
    pc = "done" =>
        \A k \in 1..Len(popped) :
            Kept(k) =>
                Cardinality({i \in 1..Len(objs[1].data) :
                                Carries(objs[1].data[i], popped[k])})
                = Cardinality({j \in 1..Len(popped) :
                                /\ Kept(j)
                                /\ popped[j].time = popped[k].time
                                /\ popped[j].value = popped[k].value
                                /\ popped[j].confidence = popped[k].confidence})

\* C3: the record appended for a kept observation has the duration
\* min(obs.duration, annotation.duration - (obs.time + groupDelay)).
C3_KeptDurationIsMin ==
    \A i \in 1..Len(appends) :
        LET e == appends[i]
            obs == popped[e.obs]
        IN Kept(e.obs) =>
              e.duration = Min(obs.duration,
                               TrackDuration - (obs.time + ir_groupdelay))

\* a kept observation was appended cut to the end of the track under a
\* non-zero delay, and another was appended with its duration unchanged
C3_Witness ==
    /\ ir_groupdelay # 0
    /\ \E i \in 1..Len(appends) :
          /\ Kept(appends[i].obs)
          /\ appends[i].duration < popped[appends[i].obs].duration
          /\ appends[i].time + appends[i].duration = TrackDuration
    /\ \E i \in 1..Len(appends) :
          /\ Kept(appends[i].obs)
          /\ appends[i].duration = popped[appends[i].obs].duration

\* the input track is well formed: every observation lies within the track
WellFormedInput ==
    \A k \in 1..Len(popped) :
        /\ popped[k].time >= 0
        /\ popped[k].duration >= 0
        /\ popped[k].time + popped[k].duration <= TrackDuration

\* C4: on a well-formed track and for a delay of any sign, every record
\* deform_times emits satisfies time >= 0 and
\* time + duration <= annotation.duration.
C4_EmittedWithinTrack ==
    WellFormedInput =>
        \A i \in 1..Len(appends) :
            /\ appends[i].time >= 0
            /\ appends[i].time + appends[i].duration <= TrackDuration

\* C10: deform_times never raises, and every append passes a duration
\* computed from the observation appended, in the same iteration.
C10_DurationFromSameIteration ==
    /\ raised = "none"
    /\ \A i \in 1..Len(appends) : appends[i].from = appends[i].obs

\* ------------------------------------- claims about median_group_delay
\* C6: the result depends on rolloff_value only through its absolute
\* value: the call with -rolloff_value selects the same bins and returns
\* the same delay, and the rolloff added to the peak is never positive.
C6_RolloffSignIrrelevant ==
    pc = "done" =>
        LET power == power_ir(h_db)
        IN /\ result = median_group_delay(h_db, gd_ir, sr, -rolloff_value)
           /\ passband = PassBand(power, Threshold(power, -rolloff_value))
           /\ threshold - MaxOf(power) <= 0

\* a call with a positive rolloff_value that left some bin out of the
\* passband and returned a delay
C6_Witness ==
    /\ pc = "done"
    /\ rolloff_value > 0
    /\ passband # {} /\ passband # 1..n_fft
    /\ result # NaN

\* C8: when no bin has a dB value strictly greater than the threshold,
\* median_group_delay fails with EstimationError and returns no delay.
C8_EmptyPassbandRaises ==
    (pc = "done" /\ passband = {}) => raised = "EstimationError"

PeakBins == {k \in 1..n_fft : power_ir(h_db)[k] = MaxOf(power_ir(h_db))}
NotFlatAtFloor == \E k \in 1..n_fft : power_ir(h_db)[k] # DbFloor

\* C9 as stated: for every impulse response whose dB curve is not flat at
\* the clip floor and every rolloff_value (0 included), the peak bin is in
\* the passband, which is therefore never empty.
C9_PeakSelectedAnyRolloff ==
    (pc = "done" /\ NotFlatAtFloor) =>
        (PeakBins \subseteq passband /\ passband # {})

\* C9 as amended: the same for every rolloff_value other than 0.
C9_PeakSelectedNonZeroRolloff ==
    (pc = "done" /\ NotFlatAtFloor /\ rolloff_value # 0) =>
        (PeakBins \subseteq passband /\ passband # {})

\* a call with a non-zero rolloff_value on a curve that is not flat, which
\* selected the peak and left a quieter bin out
C9_Witness ==
    /\ pc = "done" /\ NotFlatAtFloor /\ rolloff_value # 0
    /\ PeakBins \subseteq passband
    /\ passband # 1..n_fft

\* ------------------------------------------------ claims about audio
\* C5: after audio() the buffer's length is max(original length, IR
\* length): a buffer shorter than the IR is first extended with zeros to
\* the IR's length, a buffer at least as long keeps its length.
C5_LengthIsMax ==
    /\ pc = "padded" =>
          /\ Len(audio_y) = Max(n, Len(y_ir))
          /\ \A k \in (n + 1)..Len(audio_y) : audio_y[k] = 0
    /\ pc = "done" =>
          /\ Len(audio_y) = Max(n, Len(y_ir))
          /\ (n < Len(y_ir) => Len(audio_y) = Len(y_ir))
          /\ (n >= Len(y_ir) => Len(audio_y) = n)

\* a buffer shorter than an IR of several samples has been convolved
C5_Witness ==
    /\ pc = "done"
    /\ n > 0 /\ n < Len(y_ir)
    /\ Len(audio_y) = Len(y_ir)
    /\ \E k \in 1..Len(audio_y) : audio_y[k] # 0

\* --------------------------------- claims about __init__ and states
\* C7: an empty list of IR sources raises ConfigurationError before any
\* load, and never yields an empty sequence of states silently.
C7_EmptySourcesRejected ==
    (ir_files = <<>> /\ pc = "exhausted") => raised = "ConfigurationError"

====
